---- MODULE Spec2Model ----
(***************************************************************************)
(* Point time-series extraction from gridded NetCDF files: the three       *)
(* Streamlit front ends                                                     *)
(*   - netCDFDataExtractor.py            ("netcdf":  one file, generic)     *)
(*   - StreamlitRainfallDataExtractor.py ("generic": many files, generic)   *)
(*   - "Streamlit Rainfall Data Extractor.py" (part_000)                    *)
(*                                       ("rainfall": many files, fixed     *)
(*                                        variable 'rainfall_amount')       *)
(* Numbers that are floats in the program are fixed-point integers here,    *)
(* in hundredths (FP(5) = 500 stands for 5.0, 50 for 0.5, 5 for 0.05).      *)
(* An optional attribute is a record [has, val].                            *)
(***************************************************************************)
EXTENDS Integers, Sequences, FiniteSets, TLC

VARIABLES
    \* ---- one script run of a front end ----
    frontend,           \* which of the three scripts runs
    input_method,       \* netcdf front end: "upload" or "path"
    uploaded,           \* uploaded_files / file: sequence of file names
    atEnd,              \* per uploaded file: read position is at the end
    selected_variable,  \* the variable handed to extract_data
    target_x, target_y, \* the target coordinates
    pc,                 \* position of the script
    i,                  \* loop index (1-based position in uploaded)
    openDs,             \* indices of sources whose dataset is open
    cur,                \* result of the running extract_data call
    all_data,           \* the accumulator: sequence of [date, val]
    errors,             \* st.error lines: sequence of [src, reason]
    df,                 \* the final DataFrame: sequence of [idx, date, val]
    shown,              \* what the run displayed at its end
    visited,            \* history: indices the loop visited, in order
    handed,             \* history: bytes handed to the opener, per visit
    outcomes,           \* history: per visit, the value extract_data returned
    \* ---- one call of a pure function ----
    fpc, call, ret

vars == <<frontend, input_method, uploaded, atEnd, selected_variable,
          target_x, target_y, pc, i, openDs, cur, all_data, errors, df,
          shown, visited, handed, outcomes, fpc, call, ret>>

batchVars == <<frontend, input_method, uploaded, atEnd, selected_variable,
               target_x, target_y, pc, i, openDs, cur, all_data, errors, df,
               shown, visited, handed, outcomes>>

funVars == <<fpc, call, ret>>

----------------------------------------------------------------------------
(* Values *)

Absent == [has |-> FALSE, val |-> 0]
Opt(v) == [has |-> TRUE, val |-> v]
NoCalendar == [has |-> FALSE, val |-> ""]

FP(n) == n * 100

NaN == [nan |-> TRUE, num |-> 0]
Num(n) == [nan |-> FALSE, num |-> n]

Abs(n) == IF n < 0 THEN -n ELSE n

SeqsUpTo(S, n) == UNION {[1..k -> S] : k \in 0..n}

----------------------------------------------------------------------------
(* CoordinateResolver: np.abs(coords - target).argmin() *)

AbsDiff(coords, target) == [k \in 1..Len(coords) |-> Abs(coords[k] - target)]

RECURSIVE ArgMinScan(_, _, _)
ArgMinScan(d, k, best) ==
    IF k > Len(d) THEN best
    ELSE ArgMinScan(d, k + 1, IF d[k] < d[best] THEN k ELSE best)

RECURSIVE ArgMinScanLast(_, _, _)
ArgMinScanLast(d, k, best) ==
    IF k > Len(d) THEN best
    ELSE ArgMinScanLast(d, k + 1, IF d[k] <= d[best] THEN k ELSE best)

ArgMinLast(d) == ArgMinScanLast(d, 1, 1) - 1

\* numpy argmin: 0-based index of the first minimum; d is non-empty
\* (argmin of an empty array raises ValueError, see NearestIndex)
ArgMin(d) == ArgMinScan(d, 1, 1) - 1

\* x_idx = np.abs(x - target_x).argmin(), or the ValueError of an empty axis
NearestIndex(coords, target) ==
    IF Len(coords) = 0
    THEN [ok |-> FALSE, idx |-> 0]
    ELSE [ok |-> TRUE, idx |-> ArgMin(AbsDiff(coords, target))]

\* the two 1-D resolutions of extract_data, x then y
ResolvePoint(x, y, tx, ty) ==
    LET rx == NearestIndex(x, tx)
        ry == NearestIndex(y, ty)
    IN  [ok |-> rx.ok /\ ry.ok, x_idx |-> rx.idx, y_idx |-> ry.idx]

----------------------------------------------------------------------------
(* VariableDecoder *)

\* ds.variables[v][:, y_idx, x_idx] with netCDF4's default auto mask-and-scale:
\* a stored value equal to _FillValue or missing_value comes back masked, and
\* when the variable has a scale_factor the values come back already scaled,
\* as floats; otherwise they keep the stored dtype.
IsMissing(attrs, r) ==
    \/ attrs.fill_value.has /\ r = attrs.fill_value.val
    \/ attrs.missing_value.has /\ r = attrs.missing_value.val

LibGetItem(attrs, stored) ==
    [dtype |-> IF attrs.scale_factor.has THEN "float" ELSE attrs.dtype,
     vals  |-> [k \in 1..Len(stored) |->
                  [masked |-> IsMissing(attrs, stored[k]),
                   num    |-> IF attrs.scale_factor.has
                              THEN stored[k] * attrs.scale_factor.val
                              ELSE FP(stored[k])]]]

\* scale_factor = getncattr('scale_factor') if present else 1
ScaleFactor(attrs) ==
    IF attrs.scale_factor.has THEN attrs.scale_factor.val ELSE FP(1)

\* ma.is_masked(data)
IsMasked(data) == \E k \in 1..Len(data.vals) : data.vals[k].masked

\* x * scale_factor in floating point; NaN stays NaN
Times(v, sf) == IF v.nan THEN NaN ELSE Num((v.num * sf) \div 100)

\* the decoding block of extract_data: fill masked values with NaN (numpy
\* refuses NaN as the fill value of an integer array: TypeError), then
\* multiply by scale_factor
DecodeData(attrs, stored) ==
    LET data == LibGetItem(attrs, stored)
        sf == ScaleFactor(attrs)
    IN  IF IsMasked(data) /\ data.dtype = "int"
        THEN [ok |-> FALSE, vals |-> <<>>]
        ELSE [ok |-> TRUE,
              vals |-> [k \in 1..Len(stored) |->
                          Times(IF data.vals[k].masked THEN NaN
                                ELSE Num(data.vals[k].num), sf)]]

----------------------------------------------------------------------------
(* TimeDecoder: nc.num2date(time, units, calendar) for "days since <ref>" *)

IsLeap(y) == (y % 4 = 0 /\ y % 100 # 0) \/ y % 400 = 0

DaysInMonth(cal, y, m) ==
    IF cal = "360_day" THEN 30
    ELSE IF m = 2 THEN (IF cal = "standard" /\ IsLeap(y) THEN 29 ELSE 28)
    ELSE IF m \in {4, 6, 9, 11} THEN 30 ELSE 31

FirstOfNextMonth(d) ==
    IF d[2] < 12 THEN <<d[1], d[2] + 1, 1>> ELSE <<d[1] + 1, 1, 1>>

\* the date n >= 0 days after d on calendar cal, a month at a time
RECURSIVE AddDays(_, _, _)
AddDays(cal, d, n) ==
    LET dim == DaysInMonth(cal, d[1], d[2])
    IN  IF d[3] + n <= dim THEN <<d[1], d[2], d[3] + n>>
        ELSE AddDays(cal, FirstOfNextMonth(d), n - (dim - d[3] + 1))

\* a cftime date carries its calendar
Num2Date(time, units, calendar) ==
    [k \in 1..Len(time) |->
        [cal |-> calendar, ymd |-> AddDays(calendar, units.ref, time[k])]]

TimeCalendarAlwaysStandard(timeattrs) == "standard"

\* time_calendar = time.calendar if hasattr(time, 'calendar') else 'standard'
TimeCalendar(timeattrs) ==
    IF timeattrs.calendar.has THEN timeattrs.calendar.val ELSE "standard"

DecodeTime(time, timeattrs) ==
    Num2Date(time, timeattrs.units, TimeCalendar(timeattrs))

----------------------------------------------------------------------------
(* The files a run can be given.  A file is what nc.Dataset finds in it:    *)
(* valid (parsable as NetCDF), its 3-D data variables, the x, y and time    *)
(* axes, the attributes of time and of the data variables, and the stored   *)
(* samples grid[t][y][x].                                                   *)

FloatFill == [dtype |-> "float", scale_factor |-> Absent,
              fill_value |-> Opt(-9999), missing_value |-> Absent]
PackedInt == [dtype |-> "int", scale_factor |-> Opt(10),
              fill_value |-> Opt(-9999), missing_value |-> Absent]
PlainInt == [dtype |-> "int", scale_factor |-> Absent,
             fill_value |-> Opt(-9999), missing_value |-> Absent]

Since2021(calendar) ==
    [units |-> [unit |-> "days", ref |-> <<2021, 1, 1>>], calendar |-> calendar]

File(valid, vs, x, y, time, timeattrs, attrs, grid) ==
    [valid |-> valid, vars |-> vs, x |-> x, y |-> y, time |-> time,
     timeattrs |-> timeattrs, attrs |-> attrs, grid |-> grid]

Catalogue ==
    [n \in {"A", "B", "C", "D", "E", "F", "G"} |->
       CASE n = "A" -> File(TRUE, {"rainfall_amount"}, <<0, 10>>, <<0>>, <<0, 2>>,
                            Since2021(NoCalendar), FloatFill,
                            << << <<1, -9999>> >>, << <<-9999, 4>> >> >>)
         [] n = "B" -> File(TRUE, {"rainfall_amount"}, <<0, 10>>, <<0>>, <<0, 1>>,
                            Since2021(Opt("standard")), PackedInt,
                            << << <<30, 30>> >>, << <<20, -9999>> >> >>)
         [] n = "C" -> File(TRUE, {"temp"}, <<0, 10>>, <<0>>, <<0, 2>>,
                            Since2021(NoCalendar), FloatFill,
                            << << <<1, 1>> >>, << <<2, 2>> >> >>)
         [] n = "D" -> File(FALSE, {}, <<>>, <<>>, <<>>,
                            Since2021(NoCalendar), FloatFill, <<>>)
         [] n = "E" -> File(TRUE, {"rainfall_amount"}, <<>>, <<0>>, <<0>>,
                            Since2021(NoCalendar), FloatFill, << << <<>> >> >>)
         [] n = "F" -> File(TRUE, {"rainfall_amount"}, <<0, 10>>, <<0>>, <<0>>,
                            Since2021(Opt("360_day")), FloatFill,
                            << << <<5, 5>> >> >>)
         [] n = "G" -> File(TRUE, {"rainfall_amount"}, <<0, 10>>, <<0>>, <<0, 1>>,
                            Since2021(NoCalendar), PlainInt,
                            << << <<7, -9999>> >>, << <<-9999, 8>> >> >>)]

FileNames == DOMAIN Catalogue

\* os.path.isfile(file_path)
IsFile(name) == name \in FileNames

\* list(ds.variables.keys())
AllVars(f) == f.vars \cup {"x", "y", "time"}

MaxSources == 3

TargetXs == {5, 100}

----------------------------------------------------------------------------
(* extract_data / extract_rainfall *)

\* data[:, y_idx, x_idx]: the stored samples at one grid point, all times
Slice(f, y_idx, x_idx) ==
    [t \in 1..Len(f.grid) |-> f.grid[t][y_idx + 1][x_idx + 1]]

\* zip(dates, data)
Zip(dates, data) ==
    [k \in 1..(IF Len(dates) < Len(data) THEN Len(dates) ELSE Len(data)) |->
        [date |-> dates[k], val |-> data[k]]]

Failure(reason) == [ok |-> FALSE, reason |-> reason, frag |-> <<>>]

\* the body of extract_data once the dataset is open
ExtractBody(f, variable, tx, ty) ==
    IF variable \notin AllVars(f) THEN Failure("ValueError: variable not found")
    ELSE LET p == ResolvePoint(f.x, f.y, tx, ty)
         IN  IF ~p.ok THEN Failure("ValueError: argmin of an empty sequence")
             ELSE IF variable \notin f.vars
             THEN Failure("IndexError: too many indices")
             ELSE LET d == DecodeData(f.attrs, Slice(f, p.y_idx, p.x_idx))
                  IN  IF ~d.ok THEN Failure("TypeError: cannot convert fill_value")
                      ELSE [ok |-> TRUE, reason |-> "",
                            frag |-> Zip(DecodeTime(f.time, f.timeattrs), d.vals)]

\* uploaded_file.read(): the bytes from the read position to the end
ReadBytes(end) == IF end THEN "empty" ELSE "full"

\* nc.Dataset(..., memory=bytes) / nc.Dataset(path) succeeds
Opens(f, bytes) == f.valid /\ bytes # "empty"

CloseOnSuccessOnly(open, k, ok) == IF ok THEN open \ {k} ELSE open

\* leaving "with nc.Dataset(...) as ds" / "finally: ds.close()"
CloseDataset(open, k, ok) == open \ {k}

----------------------------------------------------------------------------
(* the DataFrame steps of main *)

\* pd.DataFrame(all_data, columns=[...]): rows with the default index
Frame(acc) ==
    [k \in 1..Len(acc) |-> [idx |-> k - 1, date |-> acc[k].date, val |-> acc[k].val]]

DateLess(a, b) ==
    \/ a.ymd[1] < b.ymd[1]
    \/ a.ymd[1] = b.ymd[1] /\ a.ymd[2] < b.ymd[2]
    \/ a.ymd[1] = b.ymd[1] /\ a.ymd[2] = b.ymd[2] /\ a.ymd[3] < b.ymd[3]

\* cftime refuses to compare dates of different calendars (TypeError)
Comparable(rows) ==
    \A a, b \in 1..Len(rows) : rows[a].date.cal = rows[b].date.cal

InsertAt(s, p, r) == SubSeq(s, 1, p) \o <<r>> \o SubSeq(s, p + 1, Len(s))

Unsorted(rows) == {rows}

\* df.sort_values('date'): kind defaults to 'quicksort', which orders by
\* date and promises nothing about rows of equal date.  All the orders it
\* may produce: each row inserted at any place that keeps the dates
\* ascending.
RECURSIVE SortValues(_)
SortValues(rows) ==
    IF rows = <<>> THEN {<<>>}
    ELSE LET r == rows[Len(rows)]
             Places(s) == {p \in 0..Len(s) :
                             /\ \A k \in 1..p : ~DateLess(r.date, s[k].date)
                             /\ \A k \in (p + 1)..Len(s) : ~DateLess(s[k].date, r.date)}
         IN  UNION {{InsertAt(s, p, r) : p \in Places(s)} :
                      s \in SortValues(SubSeq(rows, 1, Len(rows) - 1))}

IsNa(r) == r.val.nan

RECURSIVE DropFirstNaOnly(_)
DropFirstNaOnly(rows) ==
    IF rows = <<>> THEN <<>>
    ELSE IF IsNa(Head(rows)) THEN Tail(rows)
    ELSE <<Head(rows)>> \o DropFirstNaOnly(Tail(rows))

RECURSIVE DropNaAndDuplicates(_)
DropNaAndDuplicates(rows) ==
    IF rows = <<>> THEN <<>>
    ELSE LET r == rows[Len(rows)]
             front == SubSeq(rows, 1, Len(rows) - 1)
         IN  IF IsNa(r) \/ \E k \in 1..Len(front) :
                              front[k].date = r.date /\ front[k].val = r.val
             THEN DropNaAndDuplicates(front)
             ELSE DropNaAndDuplicates(front) \o <<r>>

\* df.dropna() / df.dropna(subset=['rainfall']): a date is never NA
DropNa(rows) == SelectSeq(rows, LAMBDA r : ~IsNa(r))

----------------------------------------------------------------------------
(* One run of a front end's main(), with the Extract button pressed *)

Multi == {"generic", "rainfall"}

N == Len(uploaded)

Init ==
    /\ frontend \in {"netcdf", "generic", "rainfall"}
    /\ input_method \in (IF frontend = "netcdf" THEN {"upload", "path"}
                         ELSE {"upload"})
    /\ uploaded \in (IF frontend = "netcdf"
                     THEN SeqsUpTo(IF input_method = "path"
                                   THEN FileNames \cup {"nofile"}
                                   ELSE FileNames, 1)
                     ELSE SeqsUpTo(FileNames, MaxSources))
    /\ atEnd = [k \in 1..Len(uploaded) |-> FALSE]
    /\ selected_variable = (IF frontend = "rainfall" THEN "rainfall_amount" ELSE "")
    /\ target_x \in TargetXs
    /\ target_y = 0
    /\ pc = "start"
    /\ i = 0
    /\ openDs = {}
    /\ cur = <<>>
    /\ all_data = <<>>
    /\ errors = <<>>
    /\ df = <<>>
    /\ shown = "nothing"
    /\ visited = <<>>
    /\ handed = <<>>
    /\ outcomes = <<>>
    /\ fpc = "idle" /\ call = <<>> /\ ret = <<>>

\* netcdf front end: no file chosen, the form is not drawn
NoFile ==
    /\ pc = "start" /\ frontend = "netcdf" /\ N = 0
    /\ pc' = "noform"
    /\ UNCHANGED <<frontend, input_method, uploaded, atEnd, selected_variable,
                   target_x, target_y, i, openDs, cur, all_data, errors, df,
                   shown, visited, handed, outcomes, funVars>>

\* netcdf front end: the typed path is not a file
FileNotFound ==
    /\ pc = "start" /\ frontend = "netcdf" /\ input_method = "path"
    /\ N = 1 /\ ~IsFile(uploaded[1])
    /\ pc' = "notfound"
    /\ shown' = "error"
    /\ UNCHANGED <<frontend, input_method, uploaded, atEnd, selected_variable,
                   target_x, target_y, i, openDs, cur, all_data, errors, df,
                   visited, handed, outcomes, funVars>>

\* after the variables were listed: netCDFDataExtractor.py seeks back to the
\* start (file.seek(0)), StreamlitRainfallDataExtractor.py does not
ListingRewinds(fe) == fe = "netcdf"

\* the variable selector is filled from the (first) file
ListVariables ==
    /\ pc = "start" /\ frontend \in {"netcdf", "generic"} /\ N > 0
    /\ input_method = "path" => IsFile(uploaded[1])
    /\ LET f == Catalogue[uploaded[1]]
           bytes == IF input_method = "path" THEN "path"
                    ELSE IF frontend = "netcdf" THEN ReadBytes(FALSE)
                    ELSE ReadBytes(atEnd[1])
       IN  IF Opens(f, bytes)
           THEN /\ \E v \in AllVars(f) : selected_variable' = v
                /\ atEnd' = IF input_method = "path" THEN atEnd
                            ELSE [atEnd EXCEPT ![1] = ~ListingRewinds(frontend)]
                /\ pc' = "form"
                /\ shown' = shown
           ELSE /\ selected_variable' = selected_variable
                /\ atEnd' = IF input_method = "path" THEN atEnd
                            ELSE [atEnd EXCEPT ![1] = TRUE]
                /\ pc' = "crashed"
                /\ shown' = "exception"
    /\ UNCHANGED <<frontend, input_method, uploaded, target_x, target_y, i,
                   openDs, cur, all_data, errors, df, visited, handed,
                   outcomes, funVars>>

\* nothing to list: the rainfall front end, or "if uploaded_files:" is false
SkipListing ==
    /\ pc = "start"
    /\ frontend = "rainfall" \/ (frontend = "generic" /\ N = 0)
    /\ pc' = "form"
    /\ UNCHANGED <<frontend, input_method, uploaded, atEnd, selected_variable,
                   target_x, target_y, i, openDs, cur, all_data, errors, df,
                   shown, visited, handed, outcomes, funVars>>

EmptyRequestNever(files) == FALSE

\* "if not uploaded_files:"
EmptyRequest(files) == Len(files) = 0

\* st.button(...) pressed
ClickExtract ==
    /\ pc = "form"
    /\ IF frontend \in Multi /\ EmptyRequest(uploaded)
       THEN /\ pc' = "rejected"
            /\ shown' = "request_error"
            /\ UNCHANGED <<i, all_data>>
       ELSE /\ pc' = "loop"
            /\ i' = 1
            /\ all_data' = <<>>
            /\ shown' = shown
    /\ UNCHANGED <<frontend, input_method, uploaded, atEnd, selected_variable,
                   target_x, target_y, openDs, cur, errors, df, visited,
                   handed, outcomes, funVars>>

LoopNextBreakOnError(k, ok) == IF ok THEN k + 1 ELSE N + 1

\* "for i, uploaded_file in enumerate(uploaded_files)": the next source,
\* whether the last one succeeded or was caught by "except Exception"
LoopNext(k, ok) == k + 1

ErrorLine(k, reason) == [name |-> uploaded[k], pos |-> k, reason |-> reason]

\* where the script goes once extract_data has returned or raised
AfterSource(ok) ==
    /\ i' = LoopNext(i, ok)
    /\ IF frontend \in Multi
       THEN pc' = "loop" /\ shown' = shown
       ELSE IF ok THEN pc' = "merge" /\ shown' = shown
       ELSE pc' = "failed" /\ shown' = "error"

\* extract_data: read the upload and open the dataset
OpenSource ==
    /\ pc = "loop" /\ i <= N
    /\ LET f == Catalogue[uploaded[i]]
           bytes == IF input_method = "path" THEN "path" ELSE ReadBytes(atEnd[i])
       IN  /\ visited' = Append(visited, i)
           /\ handed' = Append(handed, bytes)
           /\ atEnd' = IF input_method = "path" THEN atEnd
                       ELSE [atEnd EXCEPT ![i] = TRUE]
           /\ IF Opens(f, bytes)
              THEN /\ openDs' = openDs \cup {i}
                   /\ pc' = "body"
                   /\ UNCHANGED <<i, errors, outcomes, shown>>
              ELSE /\ errors' = Append(errors, ErrorLine(i, "OSError: not a NetCDF file"))
                   /\ outcomes' = Append(outcomes, Failure("OSError: not a NetCDF file"))
                   /\ AfterSource(FALSE)
                   /\ UNCHANGED openDs
    /\ UNCHANGED <<frontend, input_method, uploaded, selected_variable,
                   target_x, target_y, cur, all_data, df, funVars>>

\* extract_data: resolve the point, slice, decode
DecodeSource ==
    /\ pc = "body"
    /\ cur' = ExtractBody(Catalogue[uploaded[i]], selected_variable,
                          target_x, target_y)
    /\ pc' = "exit"
    /\ UNCHANGED <<frontend, input_method, uploaded, atEnd, selected_variable,
                   target_x, target_y, i, openDs, all_data, errors, df, shown,
                   visited, handed, outcomes, funVars>>

\* extract_data returns or raises: the dataset is closed, then main either
\* extends all_data or reports the error
CloseSource ==
    /\ pc = "exit"
    /\ openDs' = CloseDataset(openDs, i, cur.ok)
    /\ IF cur.ok
       THEN all_data' = all_data \o cur.frag /\ errors' = errors
       ELSE all_data' = all_data /\ errors' = Append(errors, ErrorLine(i, cur.reason))
    /\ outcomes' = Append(outcomes, cur)
    /\ cur' = <<>>
    /\ AfterSource(cur.ok)
    /\ UNCHANGED <<frontend, input_method, uploaded, atEnd, selected_variable,
                   target_x, target_y, df, visited, handed, funVars>>

\* DataFrame, sort_values('date'), dropna, display and CSV
Merge ==
    /\ \/ frontend \in Multi /\ pc = "loop" /\ i > N
       \/ frontend = "netcdf" /\ pc = "merge"
    /\ LET rows == Frame(all_data)
       IN  IF Len(rows) >= 2 /\ ~Comparable(rows)
           THEN pc' = "crashed" /\ shown' = "exception" /\ df' = df
           ELSE /\ \E s \in SortValues(rows) : df' = DropNa(s)
                /\ pc' = "done"
                /\ shown' = "results"
    /\ UNCHANGED <<frontend, input_method, uploaded, atEnd, selected_variable,
                   target_x, target_y, i, openDs, cur, all_data, errors,
                   visited, handed, outcomes, funVars>>

Next ==
    \/ NoFile
    \/ FileNotFound
    \/ ListVariables
    \/ SkipListing
    \/ ClickExtract
    \/ OpenSource
    \/ DecodeSource
    \/ CloseSource
    \/ Merge

Spec == Init /\ [][Next]_vars

----------------------------------------------------------------------------
(* Bounds and input sets of the pure-function specifications *)

MaxXLen == 4
MaxYLen == 2
MaxSamples == 3
MaxTimeLen == 3

CoordVals == {0, 10, 20, 30}
YVals == {0, 10}
Targets == {-5, 12, 15, 45}
RawVals == {5, 10, -9999}
ScaleAttrs == {Absent, Opt(10), Opt(100), Opt(200)}
FillAttrs == {Absent, Opt(-9999)}
MissingAttrs == {Absent, Opt(10)}
TimeVals == {0, 1, 2, 59, 60}
RefDates == {<<2020, 1, 1>>, <<2000, 1, 1>>, <<2001, 12, 30>>}
CalendarAttrs == {NoCalendar, Opt("standard"), Opt("360_day"), Opt("noleap")}

\* the batch variables while only a pure function is exercised
BatchIdle ==
    /\ frontend = "none" /\ input_method = "upload" /\ uploaded = <<>>
    /\ atEnd = <<>> /\ selected_variable = "" /\ target_x = 0 /\ target_y = 0
    /\ pc = "idle" /\ i = 0 /\ openDs = {} /\ cur = <<>> /\ all_data = <<>>
    /\ errors = <<>> /\ df = <<>> /\ shown = "nothing" /\ visited = <<>>
    /\ handed = <<>> /\ outcomes = <<>>

(* nearest grid point, lines 24-26 of extract_data *)
InitResolve ==
    /\ BatchIdle
    /\ fpc = "call"
    /\ call \in [x : SeqsUpTo(CoordVals, MaxXLen), y : SeqsUpTo(YVals, MaxYLen),
                 tx : Targets, ty : Targets]
    /\ ret = <<>>

ResolveCall ==
    /\ fpc = "call"
    /\ ret' = ResolvePoint(call.x, call.y, call.tx, call.ty)
    /\ fpc' = "returned"
    /\ UNCHANGED <<call, batchVars>>

NextResolve == ResolveCall

SpecResolve == InitResolve /\ [][NextResolve]_vars

(* decoding of the raw samples, lines 29-50 of extract_data *)
InitDecode ==
    /\ BatchIdle
    /\ fpc = "call"
    /\ call \in [attrs : [dtype : {"int", "float"}, scale_factor : ScaleAttrs,
                          fill_value : FillAttrs, missing_value : MissingAttrs],
                 stored : SeqsUpTo(RawVals, MaxSamples)]
    /\ ret = <<>>

DecodeCall ==
    /\ fpc = "call"
    /\ ret' = DecodeData(call.attrs, call.stored)
    /\ fpc' = "returned"
    /\ UNCHANGED <<call, batchVars>>

NextDecode == DecodeCall

SpecDecode == InitDecode /\ [][NextDecode]_vars

(* decoding of the time axis, lines 52-55 of extract_data *)
InitTime ==
    /\ BatchIdle
    /\ fpc = "call"
    /\ call \in [time : SeqsUpTo(TimeVals, MaxTimeLen),
                 attrs : [units : [unit : {"days"}, ref : RefDates],
                          calendar : CalendarAttrs]]
    /\ ret = <<>>

TimeCall ==
    /\ fpc = "call"
    /\ ret' = DecodeTime(call.time, call.attrs)
    /\ fpc' = "returned"
    /\ UNCHANGED <<call, batchVars>>

NextTime == TimeCall

SpecTime == InitTime /\ [][NextTime]_vars

----------------------------------------------------------------------------
(* C5: for a non-empty coordinate array and any target, the resolved index  *)
(* minimises |coords[i] - target| and is the lowest such index; a target    *)
(* outside the range resolves to the nearest element; x and y are resolved  *)
(* independently; [0, 10, 20, 30] with target 15 gives index 1.             *)

IsFirstNearest(coords, target, idx) ==
    /\ idx \in 0..(Len(coords) - 1)
    /\ \A j \in 1..Len(coords) :
          Abs(coords[idx + 1] - target) <= Abs(coords[j] - target)
    /\ \A j \in 1..idx :
          Abs(coords[j] - target) > Abs(coords[idx + 1] - target)

C5_NearestIndex ==
    (fpc = "returned" /\ Len(call.x) > 0 /\ Len(call.y) > 0) =>
        /\ ret.ok
        /\ IsFirstNearest(call.x, call.tx, ret.x_idx)
        /\ IsFirstNearest(call.y, call.ty, ret.y_idx)
        /\ (call.x = <<0, 10, 20, 30>> /\ call.tx = 15) => ret.x_idx = 1
        /\ (call.x = <<0, 10, 20, 30>> /\ call.tx = 45) => ret.x_idx = 3
        /\ (call.x = <<0, 10, 20, 30>> /\ call.tx = -5) => ret.x_idx = 0

C5_Witness ==
    /\ fpc = "returned"
    /\ call.x = <<30, 10, 20, 0>> /\ call.tx = 15 /\ ret.x_idx = 1
    /\ call.y = <<10, 0>> /\ call.ty = 45 /\ ret.y_idx = 0

(* C4: the decoded sequence has the length of the raw sequence; element i   *)
(* is NaN when raw[i] equals the declared fill value or is flagged missing, *)
(* and otherwise raw[i] * scale_factor (1 when absent), raw[i] being the    *)
(* value stored in the file.                                                *)

ClaimedValue(attrs, r) ==
    IF IsMissing(attrs, r) THEN NaN
    ELSE Num(r * (IF attrs.scale_factor.has THEN attrs.scale_factor.val
                  ELSE FP(1)))

C4_Decode ==
    (fpc = "returned" /\ Len(call.stored) > 0) =>
        /\ ret.ok
        /\ Len(ret.vals) = Len(call.stored)
        /\ \A k \in 1..Len(call.stored) :
              ret.vals[k] = ClaimedValue(call.attrs, call.stored[k])

(* C6: time decoding is keyed on the declared calendar, "standard" when     *)
(* none is declared; same length and order as the raw sequence; [0, 1, 2]   *)
(* days since 2020-01-01 (standard) are 2020-01-01..03; 59 days since       *)
(* 2000-01-01 on "360_day" is month 2, day 30, not the standard date.       *)

LeapsBefore(y) == ((y - 1) \div 4) - ((y - 1) \div 100) + ((y - 1) \div 400)

CumDays(m, leap) ==
    LET c == <<0, 31, 59, 90, 120, 151, 181, 212, 243, 273, 304, 334>>
    IN  c[m] + (IF leap /\ m > 2 THEN 1 ELSE 0)

\* the number of a valid date on its calendar, by closed form
DayNumber(cal, d) ==
    IF cal = "360_day" THEN d[1] * 360 + (d[2] - 1) * 30 + (d[3] - 1)
    ELSE IF cal = "noleap" THEN d[1] * 365 + CumDays(d[2], FALSE) + (d[3] - 1)
    ELSE d[1] * 365 + LeapsBefore(d[1]) + CumDays(d[2], IsLeap(d[1])) + (d[3] - 1)

ValidDate(cal, d) ==
    /\ d[2] \in 1..12
    /\ d[3] \in 1..(IF cal = "360_day" THEN 30
                    ELSE IF d[2] = 2
                         THEN (IF cal = "standard" /\ IsLeap(d[1]) THEN 29 ELSE 28)
                         ELSE IF d[2] \in {4, 6, 9, 11} THEN 30 ELSE 31)

DeclaredCalendar(attrs) ==
    IF attrs.calendar.has THEN attrs.calendar.val ELSE "standard"

C6_TimeDecode ==
    fpc = "returned" =>
        /\ Len(ret) = Len(call.time)
        /\ \A k \in 1..Len(call.time) :
              /\ ret[k].cal = DeclaredCalendar(call.attrs)
              /\ ValidDate(ret[k].cal, ret[k].ymd)
              /\ DayNumber(ret[k].cal, ret[k].ymd)
                   - DayNumber(ret[k].cal, call.attrs.units.ref) = call.time[k]
        /\ (/\ call.time = <<0, 1, 2>>
            /\ call.attrs.units.ref = <<2020, 1, 1>>
            /\ call.attrs.calendar \in {NoCalendar, Opt("standard")})
           => /\ ret[1].ymd = <<2020, 1, 1>>
              /\ ret[2].ymd = <<2020, 1, 2>>
              /\ ret[3].ymd = <<2020, 1, 3>>
        /\ (/\ call.time = <<59>>
            /\ call.attrs.units.ref = <<2000, 1, 1>>
            /\ call.attrs.calendar = Opt("360_day"))
           => /\ ret[1].ymd = <<2000, 2, 30>>
              /\ ret[1].ymd # AddDays("standard", <<2000, 1, 1>>, 59)
              /\ AddDays("standard", <<2000, 1, 1>>, 59) = <<2000, 2, 29>>

C6_Witness ==
    /\ fpc = "returned"
    /\ call.time = <<59>>
    /\ call.attrs.units.ref = <<2000, 1, 1>>
    /\ call.attrs.calendar = Opt("360_day")
    /\ ret[1].ymd = <<2000, 2, 30>>

----------------------------------------------------------------------------
(* Claims about a run of the front ends *)

\* the positions of the sources whose extraction failed, in order
FailedPositions(outs) ==
    LET Idx == [k \in 1..Len(outs) |-> k]
    IN  SelectSeq(Idx, LAMBDA k : ~outs[k].ok)

\* the fragments of the sources whose extraction succeeded, concatenated
RECURSIVE Fragments(_)
Fragments(outs) ==
    IF outs = <<>> THEN <<>>
    ELSE Fragments(SubSeq(outs, 1, Len(outs) - 1))
           \o (IF outs[Len(outs)].ok THEN outs[Len(outs)].frag ELSE <<>>)

LoopOver == pc = "done" \/ (pc = "loop" /\ i > N) \/ (pc = "crashed" /\ i > 0)

(* C1: the batch loop visits every source exactly once in list order and    *)
(* always reaches the merge step; a failing source gives exactly one error  *)
(* entry naming it and adds nothing to the accumulator; a succeeding source *)
(* adds its whole fragment and no error entry; when every source fails the  *)
(* series is empty and the error list has one entry per source.             *)
C1_BatchLoop ==
    frontend \in Multi =>
        /\ visited = [k \in 1..Len(visited) |-> k]
        /\ Len(visited) <= N
        /\ pc \in {"loop", "body", "exit"} => i \in 1..(N + 1)
        /\ (pc = "loop" /\ i <= N) => ENABLED OpenSource
        /\ pc = "body" =>   \* DecodeSource's only other condition: a result
              ExtractBody(Catalogue[uploaded[i]], selected_variable,
                          target_x, target_y).ok \in BOOLEAN
        /\ pc = "exit" => ENABLED CloseSource
        /\ (pc = "loop" /\ i > N) => ENABLED Merge
        /\ LoopOver => (Len(visited) = N /\ Len(outcomes) = N)
        /\ Len(errors) = Len(FailedPositions(outcomes))
        /\ \A k \in 1..Len(errors) :
              /\ errors[k].pos = FailedPositions(outcomes)[k]
              /\ errors[k].name = uploaded[errors[k].pos]
        /\ all_data = Fragments(outcomes)
        /\ (pc = "done" /\ \A k \in 1..N : ~outcomes[k].ok)
             => (df = <<>> /\ Len(errors) = N)

C1_Witness ==
    /\ frontend = "rainfall" /\ pc = "done" /\ N = 3
    /\ ~outcomes[2].ok /\ outcomes[1].ok /\ outcomes[3].ok
    /\ Len(errors) = 1 /\ errors[1].pos = 2
    /\ Len(all_data) = Len(outcomes[1].frag) + Len(outcomes[3].frag)

Sorted(rows) ==
    \A a, b \in 1..Len(rows) : a < b => ~DateLess(rows[b].date, rows[a].date)

Stable(rows) ==
    \A a, b \in 1..Len(rows) :
        (a < b /\ rows[a].date = rows[b].date) => rows[a].idx < rows[b].idx

C3_ExactlyNonNaN ==
    pc = "done" =>
        /\ all_data = Fragments(outcomes)
        /\ \A k \in 1..Len(df) :
              /\ ~df[k].val.nan
              /\ df[k].idx \in 0..(Len(all_data) - 1)
              /\ df[k].date = all_data[df[k].idx + 1].date
              /\ df[k].val = all_data[df[k].idx + 1].val
        /\ \A a, b \in 1..Len(df) : a # b => df[a].idx # df[b].idx
        /\ {df[k].idx : k \in 1..Len(df)}
             = {j - 1 : j \in {j \in 1..Len(all_data) : ~all_data[j].val.nan}}

C3_Witness ==
    /\ pc = "done"
    /\ \E j \in 1..Len(all_data) : all_data[j].val.nan
    /\ \E a, b \in 1..Len(df) :
          a # b /\ df[a].date = df[b].date /\ df[a].val = df[b].val
    /\ Len(df) < Len(all_data)

(* C7: a request with an empty source list is a request-level failure: no   *)
(* source is processed, no per-source error is recorded, and no merged      *)
(* series, summary or CSV is produced.                                      *)
C7_EmptyRequest ==
    (frontend \in Multi /\ N = 0 /\ pc \notin {"start", "form"}) =>
        /\ pc = "rejected"
        /\ shown = "request_error"
        /\ visited = <<>> /\ outcomes = <<>> /\ errors = <<>>
        /\ all_data = <<>> /\ df = <<>>

C7_Witness ==
    frontend \in Multi /\ N = 0 /\ pc = "rejected" /\ shown = "request_error"

(* C8: at most one dataset is open at any point, and the dataset opened for *)
(* a source is closed before the next source is opened and before the merge *)
(* step, whether extraction succeeded or failed after the open.             *)
C8_OneOpenDataset ==
    /\ Cardinality(openDs) <= 1
    /\ pc \in {"body", "exit"} => openDs = {i}
    /\ pc \notin {"body", "exit"} => openDs = {}

C8_Witness ==
    /\ pc = "body" /\ i = 3 /\ openDs = {3}
    /\ ~outcomes[1].ok /\ outcomes[1].reason # "OSError: not a NetCDF file"
    /\ outcomes[2].ok

(* C9: the NaN-drop step is idempotent: applied to its own result it yields *)
(* the identical series, same rows in the same order.                       *)
C9_DropNaIdempotent ==
    /\ DropNa(DropNa(Frame(all_data))) = DropNa(Frame(all_data))
    /\ pc = "done" => DropNa(df) = df

C9_Witness ==
    /\ pc = "done" /\ Len(df) >= 2
    /\ Cardinality({j \in 1..Len(all_data) : all_data[j].val.nan}) >= 2

(* C10: in the generic front ends, listing the variables of an uploaded     *)
(* file does not change what extraction reads: for every uploaded source,   *)
(* the first included, extract_data hands the opener the file's complete    *)
(* content from its first byte.                                             *)
C10_ReadFromStart ==
    (frontend \in {"netcdf", "generic"} /\ input_method = "upload") =>
        \A k \in 1..Len(handed) : handed[k] = "full"

====
